---- MODULE Spec2Model ----
(***************************************************************************)
(* Model of the message encryption layer of Anvic-Chat                     *)
(* (src/services/encryption.ts, class AnvicCrypto).                        *)
(*                                                                         *)
(* A JavaScript string is a sequence of UTF-16 code units, a Buffer is a   *)
(* sequence of bytes; both are modelled as sequences of naturals.          *)
(* AsyncStorage is the function store; every await on it is a step at      *)
(* which the storage call resolves or rejects.                             *)
(***************************************************************************)
EXTENDS Integers, Sequences, FiniteSets, TLC

(***************************************************************************)
(* Bounds of the model.                                                    *)
(***************************************************************************)
\* Date.now() takes the readings ClockBase + 0 .. ClockBase + MaxClock.
MaxClock == 1

(***************************************************************************)
(* Character codes and string constants.                                   *)
(***************************************************************************)
Str_u1 == <<117, 49>>
Str_u2 == <<117, 50>>
Users == {Str_u1, Str_u2}

\* The messages: "", "hé€😀" (characters of one, two, three and four UTF-8
\* bytes, the last one a surrogate pair) and "a" followed by an unpaired
\* high surrogate.
Str_empty == << >>
Str_text == <<104, 233, 8364, 55357, 56832>>
Str_lone == <<97, 55357>>
PlainTexts == {Str_empty, Str_text, Str_lone}

\* type of EncryptedMessage, and the kinds the callers of the model ask for
PayloadKinds == {"text", "image", "audio", "video"}
KindInputs == {"text", "image"}

\* The values Math.random() returns in the model, as printed by
\* Number.prototype.toString: "0.946437224967474" and "0.2365566015376721".
Rand_1 == <<48, 46, 57, 52, 54, 52, 51, 55, 50, 50, 52, 57, 54, 55, 52, 55, 52>>
Rand_2 == <<48, 46, 50, 51, 54, 53, 53, 54, 54, 48, 49, 53, 51, 55, 54, 55, 50, 49>>
RandomValues == {Rand_1, Rand_2}

(***************************************************************************)
(* Program constants (class AnvicCrypto, static fields).                   *)
(***************************************************************************)
\* 'anvic_encryption_key'
ENCRYPTION_KEY == <<97, 110, 118, 105, 99, 95, 101, 110, 99, 114, 121, 112, 116, 105, 111, 110, 95, 107, 101, 121>>
KEY_LENGTH == 32
\* '_anvic_secure', the fixed tail of the key material
KeySalt == <<95, 97, 110, 118, 105, 99, 95, 115, 101, 99, 117, 114, 101>>
\* '[Mensagem criptografada - erro na descriptografia]'
DecryptErrorPlaceholder == <<91, 77, 101, 110, 115, 97, 103, 101, 109, 32, 99, 114, 105, 112, 116, 111, 103, 114, 97, 102, 97, 100, 97, 32, 45, 32, 101, 114, 114, 111, 32, 110, 97, 32, 100, 101, 115, 99, 114, 105, 112, 116, 111, 103, 114, 97, 102, 105, 97, 93>>
\* '[Erro na descriptografia]'
SimpleDecryptPlaceholder == <<91, 69, 114, 114, 111, 32, 110, 97, 32, 100, 101, 115, 99, 114, 105, 112, 116, 111, 103, 114, 97, 102, 105, 97, 93>>
\* 'Falha na criptografia da mensagem'
EncryptErrorMessage == <<70, 97, 108, 104, 97, 32, 110, 97, 32, 99, 114, 105, 112, 116, 111, 103, 114, 97, 102, 105, 97, 32, 100, 97, 32, 109, 101, 110, 115, 97, 103, 101, 109>>
Placeholders == {DecryptErrorPlaceholder, SimpleDecryptPlaceholder}

\* AsyncStorage key of a user: `${ENCRYPTION_KEY}_${userId}`
StorageKey(userId) == ENCRYPTION_KEY \o <<95>> \o userId
StorageKeys == {StorageKey(u) : u \in Users}

(***************************************************************************)
(* Values that are not strings.                                            *)
(***************************************************************************)
\* null and undefined, encoded outside the range of code units
Null == <<0 - 1>>
Undefined == <<0 - 2>>

(***************************************************************************)
(* Integer helpers.                                                        *)
(***************************************************************************)
RECURSIVE BitXor(_, _)
\* a ^ b on non-negative integers
BitXor(a, b) ==
    IF a = 0 THEN b
    ELSE IF b = 0 THEN a
    ELSE (((a % 2) + (b % 2)) % 2) + 2 * BitXor(a \div 2, b \div 2)

Pow2_16 == 65536
Pow2_15 == 32768

(***************************************************************************)
(* Date.now().toString(): the clock reads ClockBase + t milliseconds,      *)
(* ClockBase = 1700000000000, so its decimal form is "1700" followed by    *)
(* the nine digits of t.                                                   *)
(***************************************************************************)
ClockBasePrefix == <<49, 55, 48, 48>>

RECURSIVE DecimalDigits(_, _)
\* the n low decimal digits of t, as the characters '0'..'9'
DecimalDigits(t, n) ==
    IF n = 0 THEN << >> ELSE DecimalDigits(t \div 10, n - 1) \o <<48 + (t % 10)>>

DateNowString(t) == ClockBasePrefix \o DecimalDigits(t, 9)

(***************************************************************************)
(* generateHash: the 32-bit wrap-around string hash.  A 32-bit value is    *)
(* kept as its two unsigned 16-bit halves <<hi, lo>>.                      *)
(***************************************************************************)
\* hash = ((hash << 5) - hash) + char; hash = hash & hash
HashStep(h, char) ==
    LET lo == 31 * h[2] + char
        hi == 31 * h[1] + (lo \div Pow2_16)
    IN  <<hi % Pow2_16, lo % Pow2_16>>

RECURSIVE HashLoop(_, _, _)
\* for (let i = 0; i < data.length; i++): i counts from 1 here
HashLoop(hash, data, i) ==
    IF i > Len(data) THEN hash
    ELSE LET next == HashStep(hash, data[i])
         IN  \* the test makes TLC compute next before it goes on
             IF next[1] >= 0 THEN HashLoop(next, data, i + 1) ELSE next

\* Math.abs of the signed 32-bit value whose bits are h (abs(-2^31) = 2^31)
MathAbs(h) ==
    IF h[1] < Pow2_15 THEN h
    ELSE IF h[2] = 0 THEN <<Pow2_16 - h[1], 0>>
    ELSE <<Pow2_16 - 1 - h[1], Pow2_16 - h[2]>>

HexDigit(d) == IF d < 10 THEN 48 + d ELSE 87 + d

RECURSIVE ToHex(_)
\* n.toString(16) for 0 <= n < 2^16
ToHex(n) == IF n < 16 THEN <<HexDigit(n)>> ELSE ToHex(n \div 16) \o <<HexDigit(n % 16)>>

\* padStart left out
PadStartNone(s, n, c) == s

RECURSIVE PadStart(_, _, _)
\* s.padStart(n, c)
PadStart(s, n, c) == IF Len(s) >= n THEN s ELSE PadStart(<<c>> \o s, n, c)

\* Number.prototype.toString(16) of the value <<hi, lo>>
ToString16(h) ==
    IF h[1] = 0 THEN ToHex(h[2]) ELSE ToHex(h[1]) \o PadStart(ToHex(h[2]), 4, 48)

RECURSIVE Repeat(_, _)
\* s.repeat(n)
Repeat(s, n) == IF n = 0 THEN << >> ELSE s \o Repeat(s, n - 1)

\* s.substring(0, n)
Substring0(s, n) == SubSeq(s, 1, IF n < Len(s) THEN n ELSE Len(s))

generateHash(data) ==
    Repeat(PadStart(ToString16(MathAbs(HashLoop(<<0, 0>>, data, 1))), 8, 48), 4)

\* `${userId}_${Date.now()}_${Math.random()}_anvic_secure`
KeyMaterial(userId, t, rand) ==
    userId \o <<95>> \o DateNowString(t) \o <<95>> \o rand \o KeySalt

\* the key generateUserKey derives on a miss
NewKey(userId, t, rand) == Substring0(generateHash(KeyMaterial(userId, t, rand)), KEY_LENGTH)

(***************************************************************************)
(* Buffer conversions.                                                     *)
(***************************************************************************)
IsHighSurrogate(c) == c >= 55296 /\ c <= 56319
IsLowSurrogate(c) == c >= 56320 /\ c <= 57343

\* the UTF-8 bytes of the code point cp
Utf8Bytes(cp) ==
    IF cp < 128 THEN <<cp>>
    ELSE IF cp < 2048 THEN <<192 + (cp \div 64), 128 + (cp % 64)>>
    ELSE IF cp < 65536
         THEN <<224 + (cp \div 4096), 128 + ((cp \div 64) % 64), 128 + (cp % 64)>>
    ELSE <<240 + (cp \div 262144), 128 + ((cp \div 4096) % 64),
           128 + ((cp \div 64) % 64), 128 + (cp % 64)>>

RECURSIVE Utf8EncodeFrom(_, _)
Utf8EncodeFrom(text, i) ==
    IF i > Len(text) THEN << >>
    ELSE LET c == text[i] IN
         IF IsHighSurrogate(c) /\ i < Len(text) /\ IsLowSurrogate(text[i + 1])
         THEN Utf8Bytes(65536 + (c - 55296) * 1024 + (text[i + 1] - 56320))
                  \o Utf8EncodeFrom(text, i + 2)
         ELSE IF IsHighSurrogate(c) \/ IsLowSurrogate(c)
         THEN <<239, 191, 189>> \o Utf8EncodeFrom(text, i + 1)
         ELSE Utf8Bytes(c) \o Utf8EncodeFrom(text, i + 1)

\* Buffer.from(text, 'utf8'): an unpaired surrogate is written as U+FFFD
Utf8Encode(text) == Utf8EncodeFrom(text, 1)

IsCont(b) == b >= 128 /\ b <= 191

\* the UTF-16 code units of the code point cp
CodeUnits(cp) ==
    IF cp < 65536 THEN <<cp>>
    ELSE <<55296 + ((cp - 65536) \div 1024), 56320 + ((cp - 65536) % 1024)>>

RECURSIVE Utf8DecodeFrom(_, _)
Utf8DecodeFrom(b, i) ==
    IF i > Len(b) THEN << >>
    ELSE LET b1 == b[i]
             has2 == i + 1 <= Len(b)
             has3 == i + 2 <= Len(b)
             has4 == i + 3 <= Len(b)
             lo2 == IF b1 = 224 THEN 160 ELSE IF b1 = 240 THEN 144 ELSE 128
             hi2 == IF b1 = 237 THEN 159 ELSE IF b1 = 244 THEN 143 ELSE 191
             ok2 == has2 /\ b[i + 1] >= lo2 /\ b[i + 1] <= hi2
             ok3 == has3 /\ IsCont(b[i + 2])
             ok4 == has4 /\ IsCont(b[i + 3])
         IN
         IF b1 < 128 THEN <<b1>> \o Utf8DecodeFrom(b, i + 1)
         ELSE IF b1 >= 194 /\ b1 <= 223
         THEN IF ok2
              THEN <<(b1 - 192) * 64 + (b[i + 1] - 128)>> \o Utf8DecodeFrom(b, i + 2)
              ELSE <<65533>> \o Utf8DecodeFrom(b, i + 1)
         ELSE IF b1 >= 224 /\ b1 <= 239
         THEN IF ~ok2 THEN <<65533>> \o Utf8DecodeFrom(b, i + 1)
              ELSE IF ~ok3 THEN <<65533>> \o Utf8DecodeFrom(b, i + 2)
              ELSE <<(b1 - 224) * 4096 + (b[i + 1] - 128) * 64 + (b[i + 2] - 128)>>
                       \o Utf8DecodeFrom(b, i + 3)
         ELSE IF b1 >= 240 /\ b1 <= 244
         THEN IF ~ok2 THEN <<65533>> \o Utf8DecodeFrom(b, i + 1)
              ELSE IF ~ok3 THEN <<65533>> \o Utf8DecodeFrom(b, i + 2)
              ELSE IF ~ok4 THEN <<65533>> \o Utf8DecodeFrom(b, i + 3)
              ELSE CodeUnits((b1 - 240) * 262144 + (b[i + 1] - 128) * 4096
                                 + (b[i + 2] - 128) * 64 + (b[i + 3] - 128))
                       \o Utf8DecodeFrom(b, i + 4)
         ELSE <<65533>> \o Utf8DecodeFrom(b, i + 1)

\* buf.toString('utf8'): every ill-formed subsequence is read as U+FFFD
Utf8Decode(b) == Utf8DecodeFrom(b, 1)

\* Buffer.from(s, 'binary'): the low byte of every code unit
BinaryEncode(s) == [i \in 1..Len(s) |-> s[i] % 256]

\* buf.toString('binary'): one code unit per byte
BinaryDecode(b) == b

\* 'A'..'Z', 'a'..'z', '0'..'9', '+', '/'
Base64Char(n) ==
    IF n < 26 THEN 65 + n
    ELSE IF n < 52 THEN 71 + n
    ELSE IF n < 62 THEN n - 4
    ELSE IF n = 62 THEN 43 ELSE 47

\* the 6-bit value of a base64 character ('-' and '_' are read as '+' and
\* '/'), -1 for any other character
Base64Value(c) ==
    IF c >= 65 /\ c <= 90 THEN c - 65
    ELSE IF c >= 97 /\ c <= 122 THEN c - 71
    ELSE IF c >= 48 /\ c <= 57 THEN c + 4
    ELSE IF c = 43 \/ c = 45 THEN 62
    ELSE IF c = 47 \/ c = 95 THEN 63
    ELSE 0 - 1

RECURSIVE Base64EncodeFrom(_, _)
Base64EncodeFrom(b, i) ==
    IF i > Len(b) THEN << >>
    ELSE IF i = Len(b)
    THEN <<Base64Char(b[i] \div 4), Base64Char((b[i] % 4) * 16), 61, 61>>
    ELSE IF i + 1 = Len(b)
    THEN <<Base64Char(b[i] \div 4),
           Base64Char((b[i] % 4) * 16 + (b[i + 1] \div 16)),
           Base64Char((b[i + 1] % 16) * 4), 61>>
    ELSE <<Base64Char(b[i] \div 4),
           Base64Char((b[i] % 4) * 16 + (b[i + 1] \div 16)),
           Base64Char((b[i + 1] % 16) * 4 + (b[i + 2] \div 64)),
           Base64Char(b[i + 2] % 64)>> \o Base64EncodeFrom(b, i + 3)

\* buf.toString('base64')
Base64Encode(b) == Base64EncodeFrom(b, 1)

RECURSIVE Base64Sextets(_, _)
\* the 6-bit values of the characters read by the decoder: it skips every
\* character outside the alphabet and stops at the first '='
Base64Sextets(s, i) ==
    IF i > Len(s) \/ s[i] = 61 THEN << >>
    ELSE IF Base64Value(s[i]) < 0 THEN Base64Sextets(s, i + 1)
    ELSE <<Base64Value(s[i])>> \o Base64Sextets(s, i + 1)

RECURSIVE Base64Pack(_, _)
Base64Pack(v, i) ==
    IF i + 1 > Len(v) THEN << >>
    ELSE IF i + 1 = Len(v)
    THEN <<v[i] * 4 + (v[i + 1] \div 16)>>
    ELSE IF i + 2 = Len(v)
    THEN <<v[i] * 4 + (v[i + 1] \div 16), (v[i + 1] % 16) * 16 + (v[i + 2] \div 4)>>
    ELSE <<v[i] * 4 + (v[i + 1] \div 16), (v[i + 1] % 16) * 16 + (v[i + 2] \div 4),
           (v[i + 2] % 4) * 64 + v[i + 3]>> \o Base64Pack(v, i + 4)

\* Buffer.from(s, 'base64')
Base64Decode(s) == Base64Pack(Base64Sextets(s, 1), 1)

(***************************************************************************)
(* simpleEncrypt / simpleDecrypt.                                          *)
(***************************************************************************)
\* key.charCodeAt(i % key.length), i counted from 0; NaN for an empty key,
\* and x ^ NaN is x
KeyCharAt(key, i) == IF Len(key) = 0 THEN 0 ELSE key[(i % Len(key)) + 1]

\* the loop of simpleEncrypt and simpleDecrypt
XorWithKey(s, key) == [i \in 1..Len(s) |-> BitXor(s[i], KeyCharAt(key, i - 1))]

simpleEncrypt(text, key) ==
    Base64Encode(BinaryEncode(XorWithKey(Base64Encode(Utf8Encode(text)), key)))

\* simpleDecrypt reading its last buffer as 'binary' instead of 'utf8'
simpleDecryptBinary(encrypted, key) ==
    IF encrypted \in {Null, Undefined} THEN SimpleDecryptPlaceholder
    ELSE BinaryDecode(Base64Decode(XorWithKey(BinaryDecode(Base64Decode(encrypted)), key)))

\* Buffer.from throws a TypeError when its argument is not a string
simpleDecrypt(encrypted, key) ==
    IF encrypted \in {Null, Undefined} THEN SimpleDecryptPlaceholder
    ELSE Utf8Decode(Base64Decode(XorWithKey(BinaryDecode(Base64Decode(encrypted)), key)))

(***************************************************************************)
(* The operations of AnvicCrypto, as functions of what they read.          *)
(***************************************************************************)
\* whether the global CryptoJS exists: encryption.ts neither imports nor
\* declares it and no file of the program defines it, so evaluating it throws
\* a ReferenceError, inside the try of compressBase64 and decompressBase64
CryptoJSDefined == FALSE

\* compressBase64: Base64.stringify(Utf8.parse(base64)), or base64 itself
\* from the catch
compressBase64(base64) ==
    IF CryptoJSDefined THEN Base64Encode(Utf8Encode(base64)) ELSE base64

\* decompressBase64 decoding although compressBase64 encoded nothing
decompressBase64Decoding(compressed) == Utf8Decode(Base64Decode(compressed))

\* decompressBase64: Utf8.stringify(Base64.parse(compressed)), which throws
\* on malformed UTF-8, or compressed itself from the catch
decompressBase64(compressed) ==
    LET bytes == Base64Decode(compressed) IN
    IF CryptoJSDefined /\ Utf8Encode(Utf8Decode(bytes)) = bytes
    THEN Utf8Decode(bytes) ELSE compressed

\* generateUserKey without its early return
TruthyNever(storedKey) == FALSE

\* if (storedKey): null and the empty string are falsy
Truthy(storedKey) == storedKey # Null /\ storedKey # << >>

\* encryptMessage labelling every envelope 'text'
encryptMessageResultText(message, key, tIv, tStamp, messageType) ==
    [content |-> simpleEncrypt(message, key),
     iv |-> DateNowString(tIv),
     timestamp |-> tStamp,
     type |-> "text"]

\* messageType: ... = 'text', the default of the parameter when the caller
\* passes none
MessageTypeOrDefault(messageType) ==
    IF messageType = "omitted" THEN "text" ELSE messageType

\* the EncryptedMessage built by encryptMessage once it holds the key; the
\* clock reads tIv at the first Date.now() and tStamp at the second
encryptMessageResult(message, key, tIv, tStamp, messageType) ==
    [content |-> simpleEncrypt(message, key),
     iv |-> DateNowString(tIv),
     timestamp |-> tStamp,
     type |-> messageType]

\* the argument null of decryptMessage, where an EncryptedMessage is expected
NullData == [content |-> Undefined, iv |-> Undefined, timestamp |-> 0, type |-> "null"]

\* decryptMessage treating what it decrypted as media unless type is 'text'
decryptMessageResultByType(encryptedData, key) ==
    IF encryptedData = NullData THEN DecryptErrorPlaceholder
    ELSE IF encryptedData.type = "text" THEN simpleDecrypt(encryptedData.content, key)
    ELSE decompressBase64Decoding(simpleDecrypt(encryptedData.content, key))

\* the string returned by decryptMessage once it holds the key; reading
\* .content of null throws a TypeError, caught by decryptMessage
decryptMessageResult(encryptedData, key) ==
    IF encryptedData = NullData THEN DecryptErrorPlaceholder
    ELSE simpleDecrypt(encryptedData.content, key)

\* 24 * 60 * 60 * 1000
DayMs == 86400000

\* verifyMessageIntegrity comparing with >= where the code compares with >
verifyMessageIntegrityAtLeast(encryptedData, t) ==
    LET messageAge == t - encryptedData.timestamp IN
    IF messageAge >= DayMs THEN FALSE ELSE TRUE

\* verifyMessageIntegrity(encryptedData) when Date.now() reads ClockBase + t;
\* timestamp is kept as its distance from ClockBase as well
verifyMessageIntegrity(encryptedData, t) ==
    LET messageAge == t - encryptedData.timestamp IN
    IF messageAge > DayMs THEN FALSE ELSE TRUE

\* 'the storage call failed', the rejection of AsyncStorage
StorageErrorMessage == <<0 - 3>>

\* every operation handling a rejection the way decryptMessage does
StorageErrorSwallowed(op) == [outcome |-> "returned", value |-> DecryptErrorPlaceholder]

\* how each operation ends when a storage call it awaits rejects:
\* generateUserKey and clearUserKeys have no handler, encryptMessage
\* rethrows a new Error, decryptMessage returns its placeholder; encryptMedia
\* returns the promise of encryptMessage, decryptMedia hands the string of
\* decryptMessage to decompressBase64
StorageErrorOutcome(op) ==
    CASE op \in {"encryptMessage", "encryptMedia"} ->
              [outcome |-> "threw", value |-> EncryptErrorMessage]
      [] op = "decryptMessage" -> [outcome |-> "returned", value |-> DecryptErrorPlaceholder]
      [] op = "decryptMedia" ->
              [outcome |-> "returned", value |-> decompressBase64(DecryptErrorPlaceholder)]
      [] OTHER -> [outcome |-> "threw", value |-> StorageErrorMessage]

(***************************************************************************)
(* Inputs of decryptMessage: the envelope the caller kept, as it is or     *)
(* damaged on its way back.                                                *)
(***************************************************************************)
Tampers == {"none", "corrupt", "noContent", "null"}
\* ... or with its iv, its type or its timestamp changed
MetaTampers == {"none", "iv", "type", "timestamp", "typeAndTimestamp"}

\* a ciphertext with its first character replaced (one added when empty)
CorruptContent(content) ==
    IF content = << >> THEN <<65>>
    ELSE <<IF content[1] = 65 THEN 66 ELSE 65>> \o Tail(content)

\* an iv with its last character replaced
ChangedIv(iv) == SubSeq(iv, 1, Len(iv) - 1) \o <<IF iv[Len(iv)] = 57 THEN 48 ELSE 57>>

\* another payload kind
ChangedType(type) ==
    CASE type = "text" -> "image"
      [] type = "image" -> "audio"
      [] type = "audio" -> "video"
      [] OTHER -> "text"

\* the fields of an envelope of the model that the program sees
Envelope(e) == [content |-> e.content, iv |-> e.iv, timestamp |-> e.timestamp, type |-> e.type]

EncryptedData(e, tamper) ==
    CASE tamper = "none" -> Envelope(e)
      [] tamper = "corrupt" -> [Envelope(e) EXCEPT !.content = CorruptContent(e.content)]
      [] tamper = "noContent" -> [Envelope(e) EXCEPT !.content = Undefined]
      [] tamper = "null" -> NullData
      [] tamper = "iv" -> [Envelope(e) EXCEPT !.iv = ChangedIv(e.iv)]
      [] tamper = "type" -> [Envelope(e) EXCEPT !.type = ChangedType(e.type)]
      [] tamper = "timestamp" -> [Envelope(e) EXCEPT !.timestamp = e.timestamp + DayMs + 1]
      [] tamper = "typeAndTimestamp" ->
              [Envelope(e) EXCEPT !.type = ChangedType(e.type),
                                  !.timestamp = e.timestamp + DayMs + 1]

\* no envelope
NoEnvelope ==
    [content |-> Undefined, iv |-> Undefined, timestamp |-> 0, type |-> "none",
     userId |-> << >>, plain |-> << >>, key |-> Null, keyCleared |-> FALSE]

(***************************************************************************)
(* State.                                                                  *)
(***************************************************************************)
VARIABLES
    store,      \* AsyncStorage: storage key -> stored string, or Null
    now,        \* the clock: Date.now() = ClockBase + now
    drawn,      \* the values Math.random() has returned so far; it is taken
                \* never to return a value twice
    call,       \* the call each caller has in flight or has last finished
    kept,       \* the envelope the callers hold on to for decryption, with
                \* for whom, of what and under which key it was made
    issued,     \* per user, the key last returned since the last clear
    cleared,    \* per user, the stored key the last clearUserKeys removed
    recording,  \* AnvicMediaService.recording
    files,      \* the file system: the files, each a path and what it holds
    svc         \* the call each caller has in flight at AnvicMediaService or
                \* at ScheduledMessagesService

\* the state of the services built on AnvicCrypto and AsyncStorage
serviceVars == <<recording, files, svc>>

vars == <<store, now, drawn, call, kept, issued, cleared, recording, files, svc>>

\* the callers; a sequential history is the history of caller 1
Procs == {1, 2}
SeqProcs == {1}

\* a path of the file system: the name, the Date.now() in it, the extension
Path(name, stamp, ext) == [name |-> name, stamp |-> stamp, ext |-> ext]
\* no path: a null uri
NoPath == Path("", 0, "")

\* what a file holds: media, written down as its base64 text, or the
\* JSON.stringify of an envelope
MediaContent(base64) == [holds |-> "media", media |-> base64, envelope |-> NoEnvelope]
EnvelopeContent(e) == [holds |-> "envelope", media |-> << >>, envelope |-> e]

\* interface MediaFile: uri, type, encrypted; null
MediaFile(uri, type, encrypted) == [uri |-> uri, type |-> type, encrypted |-> encrypted]
NoMediaFile == MediaFile(NoPath, "null", FALSE)

\* this.recording: null, or a Recording, with the state of its recorder
\* (created, prepared, recording, stopped) and its getURI(); orphan tells
\* that a Recording dropped while prepared still holds the one recorder of
\* the device
NoRecording == [state |-> "none", uri |-> NoPath, orphan |-> FALSE]

\* a call at a service: where it stands, its arguments and its locals
IdleService ==
    [op |-> "none", pc |-> "idle", encrypt |-> FALSE, userId |-> Undefined,
     uri |-> NoPath, base64 |-> Undefined, encrypted |-> NoEnvelope,
     finalUri |-> NoPath, returned |-> NoMediaFile, tempPath |-> NoPath,
     encryptedPath |-> NoPath, started |-> FALSE, threw |-> FALSE,
     original |-> NoPath, media |-> << >>, tamper |-> "none", key |-> Null,
     result |-> NoPath]

\* no recording, no file, no service call in flight
ServicesIdle ==
    /\ recording = NoRecording
    /\ files = {}
    /\ svc = [p \in Procs |-> IdleService]

IdleCall ==
    [op |-> "none", pc |-> "idle", userId |-> << >>, message |-> << >>, media |-> << >>,
     kind |-> "text", envelope |-> NoEnvelope, tamper |-> "none", key |-> Null,
     outcome |-> "none", value |-> Null, rejected |-> "none",
     created |-> FALSE, clearedKey |-> Null, keptIt |-> FALSE, readAt |-> 0,
     overwrote |-> Null, kindGiven |-> "omitted"]

Init ==
    /\ store = [k \in StorageKeys |-> Null]
    /\ now = 0
    /\ drawn = {}
    /\ call = [p \in Procs |-> IdleCall]
    /\ kept = NoEnvelope
    /\ issued = [u \in Users |-> Null]
    /\ cleared = [u \in Users |-> Null]
    /\ ServicesIdle

Free(p) == call[p].pc \in {"idle", "done"}

\* a storage call of the call of p was rejected
StorageFailed(p) == call[p].rejected # "none"

(***************************************************************************)
(* Calls.  Each starts by issuing its first storage call.                  *)
(***************************************************************************)
BeginGenerateUserKey(p, userId) ==
    /\ Free(p)
    /\ call' = [call EXCEPT ![p] =
                  [IdleCall EXCEPT !.op = "generateUserKey", !.pc = "getItem",
                                   !.userId = userId]]
    /\ UNCHANGED <<store, now, drawn, kept, issued, cleared>>
    /\ UNCHANGED serviceVars

BeginEncryptMessage(p, message, userId, messageType) ==
    /\ Free(p)
    /\ call' = [call EXCEPT ![p] =
                  [IdleCall EXCEPT !.op = "encryptMessage", !.pc = "getItem",
                                   !.userId = userId, !.message = message,
                                   !.kindGiven = messageType,
                                   !.kind = MessageTypeOrDefault(messageType)]]
    /\ UNCHANGED <<store, now, drawn, kept, issued, cleared>>
    /\ UNCHANGED serviceVars

\* decryptMessage(encryptedData, userId), encryptedData the kept envelope
BeginDecryptMessage(p, tamper, userId) ==
    /\ Free(p)
    /\ kept # NoEnvelope
    /\ call' = [call EXCEPT ![p] =
                  [IdleCall EXCEPT !.op = "decryptMessage", !.pc = "getItem",
                                   !.userId = userId, !.envelope = kept,
                                   !.tamper = tamper]]
    /\ UNCHANGED <<store, now, drawn, kept, issued, cleared>>
    /\ UNCHANGED serviceVars

\* encryptMedia(base64Data, userId, mediaType): compressBase64, then
\* encryptMessage
BeginEncryptMedia(p, base64Data, userId, mediaType) ==
    /\ Free(p)
    /\ call' = [call EXCEPT ![p] =
                  [IdleCall EXCEPT !.op = "encryptMedia", !.pc = "getItem",
                                   !.userId = userId, !.media = base64Data,
                                   !.message = compressBase64(base64Data),
                                   !.kindGiven = mediaType,
                                   !.kind = MessageTypeOrDefault(mediaType)]]
    /\ UNCHANGED <<store, now, drawn, kept, issued, cleared>>
    /\ UNCHANGED serviceVars

\* decryptMedia(encryptedData, userId), encryptedData the kept envelope
BeginDecryptMedia(p, tamper, userId) ==
    /\ Free(p)
    /\ kept # NoEnvelope
    /\ call' = [call EXCEPT ![p] =
                  [IdleCall EXCEPT !.op = "decryptMedia", !.pc = "getItem",
                                   !.userId = userId, !.envelope = kept,
                                   !.tamper = tamper]]
    /\ UNCHANGED <<store, now, drawn, kept, issued, cleared>>
    /\ UNCHANGED serviceVars

BeginClearUserKeys(p, userId) ==
    /\ Free(p)
    /\ call' = [call EXCEPT ![p] =
                  [IdleCall EXCEPT !.op = "clearUserKeys", !.pc = "removeItem",
                                   !.userId = userId]]
    /\ UNCHANGED <<store, now, drawn, kept, issued, cleared>>
    /\ UNCHANGED serviceVars

(***************************************************************************)
(* The continuation of a call once generateUserKey has returned key.       *)
(***************************************************************************)
KeyReturned(p, key, wasCreated) ==
    LET c == call[p]
        done == [c EXCEPT !.pc = "done", !.key = key, !.outcome = "returned",
                          !.created = wasCreated, !.message = << >>, !.media = << >>,
                          !.clearedKey = IF wasCreated THEN cleared[c.userId] ELSE Null,
                          !.overwrote =
                              IF wasCreated THEN store[StorageKey(c.userId)] ELSE Null]
        made(tStamp) ==
            encryptMessageResult(c.message, key, now, tStamp, c.kind)
                @@ [userId |-> c.userId, key |-> key, keyCleared |-> FALSE,
                    plain |-> IF c.op = "encryptMedia" THEN c.media ELSE c.message]
    IN
    /\ issued' = [issued EXCEPT ![c.userId] = key]
    /\ CASE c.op = "generateUserKey" ->
              /\ call' = [call EXCEPT ![p] = [done EXCEPT !.value = key]]
              /\ UNCHANGED <<kept, now>>
         [] c.op \in {"encryptMessage", "encryptMedia"} ->
              \* the clock may tick between the two Date.now(); the caller
              \* holds on to the envelope, or lets it go
              \E tStamp \in {now, now + 1} \cap (0..MaxClock), keep \in BOOLEAN :
                  /\ now' = tStamp
                  /\ call' = [call EXCEPT ![p] =
                                [done EXCEPT !.envelope = made(tStamp), !.keptIt = keep]]
                  /\ kept' = IF keep THEN made(tStamp) ELSE kept
         [] c.op = "decryptMessage" ->
              /\ call' = [call EXCEPT ![p] = [done EXCEPT !.value =
                     decryptMessageResult(EncryptedData(c.envelope, c.tamper), key)]]
              /\ UNCHANGED <<kept, now>>
         [] c.op = "decryptMedia" ->
              /\ call' = [call EXCEPT ![p] = [done EXCEPT !.value =
                     decompressBase64(
                         decryptMessageResult(EncryptedData(c.envelope, c.tamper), key))]]
              /\ UNCHANGED <<kept, now>>

\* a storage call of the call rejects
StorageRejects(p) ==
    LET c == call[p]
        end == StorageErrorOutcome(c.op)
    IN
    /\ c.pc \in {"getItem", "setItem", "removeItem"}
    /\ call' = [call EXCEPT ![p] =
                  [c EXCEPT !.pc = "done", !.outcome = end.outcome, !.value = end.value,
                            !.rejected = c.pc, !.message = << >>, !.media = << >>,
                            !.key = Null]]
    /\ UNCHANGED <<store, now, drawn, kept, issued, cleared>>
    /\ UNCHANGED serviceVars

(***************************************************************************)
(* generateUserKey.                                                        *)
(***************************************************************************)
\* getItem resolves with a stored key: it is returned
GetItemHit(p) ==
    LET c == call[p]
        storedKey == store[StorageKey(c.userId)]
    IN
    /\ c.pc = "getItem"
    /\ Truthy(storedKey)
    /\ KeyReturned(p, storedKey, FALSE)
    /\ UNCHANGED <<store, drawn, cleared>>
    /\ UNCHANGED serviceVars

\* getItem resolves with nothing: a key is derived and setItem is issued
GetItemMiss(p) ==
    LET c == call[p]
        storedKey == store[StorageKey(c.userId)]
    IN
    /\ c.pc = "getItem"
    /\ ~Truthy(storedKey)
    /\ \E rand \in RandomValues \ drawn :
          /\ drawn' = drawn \cup {rand}
          /\ call' = [call EXCEPT ![p] =
                        [c EXCEPT !.pc = "setItem", !.key = NewKey(c.userId, now, rand)]]
    /\ UNCHANGED <<store, now, kept, issued, cleared>>
    /\ UNCHANGED serviceVars

\* setItem resolving without having stored the key
SetItemLost(p) ==
    LET c == call[p] IN
    /\ c.pc = "setItem"
    /\ KeyReturned(p, c.key, TRUE)
    /\ UNCHANGED <<store, drawn, cleared>>
    /\ UNCHANGED serviceVars

\* setItem writing the key under the storage key of every user
SetItemEveryUser(p) ==
    LET c == call[p] IN
    /\ c.pc = "setItem"
    /\ store' = [k \in DOMAIN store |-> c.key]
    /\ KeyReturned(p, c.key, TRUE)
    /\ UNCHANGED <<drawn, cleared>>
    /\ UNCHANGED serviceVars

\* setItem writing only where no key is stored
SetItemIfAbsent(p) ==
    LET c == call[p]
        k == StorageKey(c.userId)
    IN
    /\ c.pc = "setItem"
    /\ store' = IF Truthy(store[k]) THEN store ELSE [store EXCEPT ![k] = c.key]
    /\ KeyReturned(p, c.key, TRUE)
    /\ UNCHANGED <<drawn, cleared>>
    /\ UNCHANGED serviceVars

\* setItem resolves: the key is stored and returned
SetItemResolves(p) ==
    LET c == call[p] IN
    /\ c.pc = "setItem"
    /\ store' = [store EXCEPT ![StorageKey(c.userId)] = c.key]
    /\ KeyReturned(p, c.key, TRUE)
    /\ UNCHANGED <<drawn, cleared>>
    /\ UNCHANGED serviceVars

(***************************************************************************)
(* clearUserKeys.                                                          *)
(***************************************************************************)
\* the envelope e once the key of userId was removed
AfterClear(e, userId) ==
    IF e # NoEnvelope /\ e.userId = userId THEN [e EXCEPT !.keyCleared = TRUE] ELSE e

\* clearUserKeys removing the keys of all users
RemoveItemEveryUser(p) ==
    LET c == call[p] IN
    /\ c.pc = "removeItem"
    /\ store' = [k \in DOMAIN store |-> Null]
    /\ cleared' = [cleared EXCEPT ![c.userId] = store[StorageKey(c.userId)]]
    /\ issued' = [u \in DOMAIN issued |-> Null]
    /\ kept' = AfterClear(kept, c.userId)
    /\ call' = [q \in Procs |->
                  IF q = p THEN [c EXCEPT !.pc = "done", !.outcome = "returned"]
                  ELSE [call[q] EXCEPT !.envelope = AfterClear(@, c.userId)]]
    /\ UNCHANGED <<now, drawn>>
    /\ UNCHANGED serviceVars

RemoveItemResolves(p) ==
    LET c == call[p] IN
    /\ c.pc = "removeItem"
    /\ store' = [store EXCEPT ![StorageKey(c.userId)] = Null]
    /\ cleared' = [cleared EXCEPT ![c.userId] = store[StorageKey(c.userId)]]
    /\ issued' = [issued EXCEPT ![c.userId] = Null]
    /\ kept' = AfterClear(kept, c.userId)
    /\ call' = [q \in Procs |->
                  IF q = p THEN [c EXCEPT !.pc = "done", !.outcome = "returned"]
                  ELSE [call[q] EXCEPT !.envelope = AfterClear(@, c.userId)]]
    /\ UNCHANGED <<now, drawn>>
    /\ UNCHANGED serviceVars

(***************************************************************************)
(* The clock.                                                              *)
(***************************************************************************)
Tick ==
    /\ now < MaxClock
    /\ now' = now + 1
    /\ UNCHANGED <<store, drawn, call, kept, issued, cleared>>
    /\ UNCHANGED serviceVars

(***************************************************************************)
(* Sequential histories: caller 1 alone, one call at a time.               *)
(***************************************************************************)
Step(p) ==
    \/ \E u \in Users : BeginGenerateUserKey(p, u)
    \/ \E m \in PlainTexts, u \in Users, k \in KindInputs : BeginEncryptMessage(p, m, u, k)
    \/ \E t \in Tampers, u \in Users : BeginDecryptMessage(p, t, u)
    \/ \E u \in Users : BeginClearUserKeys(p, u)
    \/ GetItemHit(p)
    \/ GetItemMiss(p)
    \/ SetItemResolves(p)
    \/ RemoveItemResolves(p)
    \/ StorageRejects(p)

Next == (\E p \in SeqProcs : Step(p)) \/ Tick

Spec == Init /\ [][Next]_vars

(***************************************************************************)
(* Media: sequential histories of encryptMedia, decryptMedia and           *)
(* clearUserKeys.                                                          *)
(***************************************************************************)
\* base64 payloads: "" and "/9j+4A=="
Media_empty == << >>
Media_jpeg == <<47, 57, 106, 43, 52, 65, 61, 61>>
MediaPayloads == {Media_empty, Media_jpeg}
MediaKinds == {"image", "audio", "video"}

MediaStep(p) ==
    \/ \E b \in MediaPayloads, u \in Users, k \in MediaKinds : BeginEncryptMedia(p, b, u, k)
    \/ \E u \in Users : BeginDecryptMedia(p, "none", u)
    \/ \E u \in Users : BeginClearUserKeys(p, u)
    \/ GetItemHit(p)
    \/ GetItemMiss(p)
    \/ SetItemResolves(p)
    \/ RemoveItemResolves(p)
    \/ StorageRejects(p)

MediaNext == (\E p \in SeqProcs : MediaStep(p)) \/ Tick

MediaSpec == Init /\ [][MediaNext]_vars

(***************************************************************************)
(* Envelopes whose iv, type or timestamp changed on their way back: two    *)
(* callers encrypt and decrypt for one user.                               *)
(***************************************************************************)
\* the caller who encrypts, decrypts and clears
MetaStep(p) ==
    \/ BeginEncryptMessage(p, Str_text, Str_u1, "text")
    \/ \E t \in MetaTampers : BeginDecryptMessage(p, t, Str_u1)
    \/ BeginClearUserKeys(p, Str_u1)
    \/ GetItemHit(p)
    \/ GetItemMiss(p)
    \/ SetItemResolves(p)
    \/ RemoveItemResolves(p)
    \/ StorageRejects(p)

\* the caller who only decrypts
MetaReaderStep(p) ==
    \/ \E t \in MetaTampers : BeginDecryptMessage(p, t, Str_u1)
    \/ GetItemHit(p)
    \/ GetItemMiss(p)
    \/ SetItemResolves(p)

MetaNext == MetaStep(1) \/ MetaReaderStep(2) \/ Tick

MetaSpec == Init /\ [][MetaNext]_vars

(***************************************************************************)
(* Concurrent histories: two callers work for one user, their calls        *)
(* interleaving at the storage awaits.                                     *)
(***************************************************************************)
ConcStep(p) ==
    \/ BeginGenerateUserKey(p, Str_u1)
    \/ BeginEncryptMessage(p, Str_text, Str_u1, "text")
    \/ BeginDecryptMessage(p, "none", Str_u1)
    \/ BeginClearUserKeys(p, Str_u1)
    \/ GetItemHit(p)
    \/ GetItemMiss(p)
    \/ SetItemResolves(p)
    \/ RemoveItemResolves(p)
    \/ StorageRejects(p)

ConcNext == (\E p \in Procs : ConcStep(p)) \/ Tick

ConcSpec == Init /\ [][ConcNext]_vars

(***************************************************************************)
(* The key store: sequential histories for two users, whose key material   *)
(* hashes to 0 and to -2^31, the ends of the range of the hash.            *)
(***************************************************************************)
\* 'invra6l': `invra6l_1700000000000_${Rand_1}_anvic_secure` hashes to 0
Str_zero == <<105, 110, 118, 114, 97, 54, 108>>
\* 'snpiztq': `snpiztq_1700000000000_${Rand_2}_anvic_secure` hashes to -2^31
Str_min == <<115, 110, 112, 105, 122, 116, 113>>
KeyUsers == {Str_zero, Str_min}

KeyInit ==
    /\ store = [k \in {StorageKey(u) : u \in KeyUsers} |-> Null]
    /\ now = 0
    /\ drawn = {}
    /\ call = [p \in Procs |-> IdleCall]
    /\ kept = NoEnvelope
    /\ issued = [u \in KeyUsers |-> Null]
    /\ cleared = [u \in KeyUsers |-> Null]
    /\ ServicesIdle

KeyStep(p) ==
    \/ \E u \in KeyUsers : BeginGenerateUserKey(p, u)
    \/ \E u \in KeyUsers : BeginEncryptMessage(p, Str_text, u, "text")
    \/ \E u \in KeyUsers : BeginDecryptMessage(p, "none", u)
    \/ \E u \in KeyUsers : BeginClearUserKeys(p, u)
    \/ GetItemHit(p)
    \/ GetItemMiss(p)
    \/ SetItemResolves(p)
    \/ RemoveItemResolves(p)
    \/ StorageRejects(p)

KeyNext == (\E p \in SeqProcs : KeyStep(p)) \/ Tick

KeySpec == KeyInit /\ [][KeyNext]_vars

(***************************************************************************)
(* Packaging: sequential histories of encryptMessage, with each payload    *)
(* kind or none, and of encryptMedia with each media kind.                 *)
(***************************************************************************)
PackStep(p) ==
    \/ \E k \in PayloadKinds \cup {"omitted"} : BeginEncryptMessage(p, Str_text, Str_u1, k)
    \/ \E k \in MediaKinds : BeginEncryptMedia(p, Media_jpeg, Str_u1, k)
    \/ BeginClearUserKeys(p, Str_u1)
    \/ GetItemHit(p)
    \/ GetItemMiss(p)
    \/ SetItemResolves(p)
    \/ RemoveItemResolves(p)
    \/ StorageRejects(p)

PackNext == (\E p \in SeqProcs : PackStep(p)) \/ Tick

PackSpec == Init /\ [][PackNext]_vars

(***************************************************************************)
(* verifyMessageIntegrity on its own: envelopes of any content, iv, type   *)
(* and timestamp, checked at clock readings around the 24 hours.           *)
(***************************************************************************)
IntegrityClock == {0, 1, DayMs - 1, DayMs, DayMs + 1, DayMs + 2}
IntegrityStamps == {0, 1, 2, DayMs + 3}

IntegrityEnvelopes ==
    {[NoEnvelope EXCEPT !.content = c, !.iv = DateNowString(i), !.timestamp = t,
                        !.type = k] :
        c \in {<< >>, <<81, 81, 61, 61>>}, i \in {0, 1}, t \in IntegrityStamps,
        k \in KindInputs}

IntegrityInit ==
    /\ store = [k \in StorageKeys |-> Null]
    /\ now = 0
    /\ drawn = {}
    /\ call = [p \in Procs |-> IdleCall]
    /\ kept \in IntegrityEnvelopes
    /\ issued = [u \in Users |-> Null]
    /\ cleared = [u \in Users |-> Null]
    /\ ServicesIdle

\* verifyMessageIntegrity(encryptedData), synchronous
VerifyMessageIntegrity(p) ==
    /\ Free(p)
    /\ call' = [call EXCEPT ![p] =
                  [IdleCall EXCEPT !.op = "verifyMessageIntegrity", !.pc = "done",
                                   !.envelope = kept, !.readAt = now,
                                   !.outcome = "returned",
                                   !.value = verifyMessageIntegrity(Envelope(kept), now)]]
    /\ UNCHANGED <<store, now, drawn, kept, issued, cleared>>
    /\ UNCHANGED serviceVars

\* time passes
IntegrityTick ==
    /\ \E t \in IntegrityClock : t > now /\ now' = t
    /\ UNCHANGED <<store, drawn, call, kept, issued, cleared>>
    /\ UNCHANGED serviceVars

IntegrityNext == (\E p \in Procs : VerifyMessageIntegrity(p)) \/ IntegrityTick

IntegritySpec == IntegrityInit /\ [][IntegrityNext]_vars

(***************************************************************************)
(* Properties.                                                             *)
(***************************************************************************)
RECURSIVE WellFormedFrom(_, _)
WellFormedFrom(text, i) ==
    IF i > Len(text) THEN TRUE
    ELSE IF IsHighSurrogate(text[i])
    THEN i < Len(text) /\ IsLowSurrogate(text[i + 1]) /\ WellFormedFrom(text, i + 2)
    ELSE ~IsLowSurrogate(text[i]) /\ WellFormedFrom(text, i + 1)

\* text has no unpaired surrogate
WellFormed(text) == WellFormedFrom(text, 1)

\* caller p has finished a decryptMessage of the untouched kept envelope
Decrypted(p) ==
    /\ call[p].pc = "done"
    /\ call[p].op = "decryptMessage"
    /\ call[p].tamper = "none"

\* ... for the user it was made for, whose key was not cleared in between,
\* and no storage call of the decryption was rejected
DecryptedBack(p) ==
    /\ Decrypted(p)
    /\ call[p].userId = call[p].envelope.userId
    /\ ~call[p].envelope.keyCleared
    /\ ~StorageFailed(p)

\* caller p has finished an encryptMessage while an envelope of an earlier
\* call for the same user and message, made under the same key, is kept
EncryptedAgain(p) ==
    /\ call[p].pc = "done"
    /\ call[p].op = "encryptMessage"
    /\ call[p].outcome = "returned"
    /\ ~call[p].keptIt
    /\ kept # NoEnvelope
    /\ kept.userId = call[p].envelope.userId
    /\ kept.plain = call[p].envelope.plain
    /\ kept.key = call[p].envelope.key

C2_CiphertextDiffers ==
    \A p \in Procs : EncryptedAgain(p) => kept.content # call[p].envelope.content

\* C3: any two distinct encryptMessage calls return envelopes with different
\* iv, whatever the plaintexts, the users and the clock.
C3_IvFresh ==
    \A p \in Procs :
        (/\ call[p].pc = "done"
         /\ call[p].op = "encryptMessage"
         /\ call[p].outcome = "returned"
         /\ ~call[p].keptIt
         /\ kept # NoEnvelope) => kept.iv # call[p].envelope.iv

\* C4: decryptMessage(encryptMessage(p, u1), u2) never returns p when
\* u1 # u2, for every p, the empty string included.
C4_CrossUserIsolation ==
    \A p \in Procs :
        Decrypted(p) /\ call[p].userId # call[p].envelope.userId =>
            call[p].value # call[p].envelope.plain

\* C5: between two clearUserKeys(u), every key returned for u, by
\* generateUserKey itself or inside encryptMessage and decryptMessage, is the
\* key returned before: a step never changes the key issued for u to another
\* key.
C5_KeyStability ==
    [][\A u \in Users :
          issued[u] # Null /\ issued'[u] # Null => issued'[u] = issued[u]]_vars

\* C5 witness: a call found the stored key and returned the key issued before.
C5_Witness ==
    \E p \in Procs :
        /\ call[p].pc = "done"
        /\ call[p].op = "generateUserKey"
        /\ call[p].outcome = "returned"
        /\ ~call[p].created
        /\ call[p].value = issued[call[p].userId]
        /\ call[p].value = store[StorageKey(call[p].userId)]

\* C6: after clearUserKeys(u), decryptMessage of an envelope made for u
\* before the clear returns a placeholder string and never the plaintext.
C6_OldEnvelopeUndecryptable ==
    \A p \in Procs :
        (/\ Decrypted(p)
         /\ call[p].userId = call[p].envelope.userId
         /\ call[p].envelope.keyCleared) =>
            /\ call[p].value \in Placeholders
            /\ call[p].value # call[p].envelope.plain

\* C7: after clearUserKeys(u), the next generateUserKey(u) returns a key
\* different from the key that was stored for u before the clear.
C7_NewKeyDiffers ==
    \A p \in Procs :
        (/\ call[p].pc = "done"
         /\ call[p].created
         /\ call[p].clearedKey # Null) => call[p].key # call[p].clearedKey

\* C8: decryptMessage never throws, and whenever the key it reads differs
\* from the key of the encryption, or the content was corrupted, or the
\* envelope is malformed, it returns one of the two placeholder strings.
C8_FailuresMarked ==
    \A p \in Procs :
        (/\ call[p].pc = "done"
         /\ call[p].op = "decryptMessage"
         /\ \/ call[p].tamper # "none"
            \/ ~StorageFailed(p) /\ call[p].key # call[p].envelope.key) =>
            /\ call[p].outcome = "returned"
            /\ call[p].value \in Placeholders

\* C9: when a storage call fails while generateUserKey runs, directly or
\* inside encryptMessage, the call ends with an error: it returns no key and
\* no envelope, and no key is put in the place of the one it could not get.
C9_StorageFailureFatal ==
    \A p \in Procs :
        (/\ call[p].pc = "done"
         /\ call[p].op \in {"generateUserKey", "encryptMessage"}
         /\ StorageFailed(p)) =>
            /\ call[p].outcome = "threw"
            /\ call[p].value \in {StorageErrorMessage, EncryptErrorMessage}
            /\ call[p].key = Null
            /\ call[p].envelope = NoEnvelope
            /\ ~call[p].keptIt

\* C9 witness: an encryptMessage whose setItem was rejected has ended, and
\* the key it had derived is not in the store.
C9_Witness ==
    \E p \in Procs :
        /\ call[p].pc = "done"
        /\ call[p].op = "encryptMessage"
        /\ call[p].rejected = "setItem"
        /\ store[StorageKey(call[p].userId)] = Null

\* C10: when a storage call fails while decryptMessage obtains the key, the
\* failure reaches the caller as an error, not as a returned string.
C10_DecryptPropagatesStorageFailure ==
    \A p \in Procs :
        (/\ call[p].pc = "done"
         /\ call[p].op = "decryptMessage"
         /\ StorageFailed(p)) => call[p].outcome = "threw"

\* caller p has finished a verifyMessageIntegrity
Verified(p) == call[p].pc = "done" /\ call[p].op = "verifyMessageIntegrity"

\* the age of the envelope of p at the clock reading of its call
MessageAge(p) == call[p].readAt - call[p].envelope.timestamp

\* C11: verifyMessageIntegrity returns false exactly when now - timestamp is
\* greater than 86,400,000 ms and true otherwise (at exactly 24 hours and for
\* timestamps in the future too), and two checks at the same clock reading
\* of envelopes with the same timestamp agree whatever their content, iv and
\* type.
C11_Staleness ==
    /\ \A p \in Procs :
          Verified(p) =>
              /\ call[p].outcome = "returned"
              /\ call[p].value = ~(MessageAge(p) > 86400000)
    /\ \A p, q \in Procs :
          (/\ Verified(p) /\ Verified(q)
           /\ call[p].readAt = call[q].readAt
           /\ call[p].envelope.timestamp = call[q].envelope.timestamp) =>
              call[p].value = call[q].value

\* C11 witness: an envelope of exactly 24 hours was accepted, and one
\* millisecond later the same envelope was refused.
C11_Witness ==
    \E p, q \in Procs :
        /\ Verified(p) /\ MessageAge(p) = 86400000 /\ call[p].value = TRUE
        /\ Verified(q) /\ MessageAge(q) = 86400001 /\ call[q].value = FALSE
        /\ call[p].envelope = call[q].envelope

\* caller p has finished a decryptMedia of the kept envelope for the user it
\* was made for, whose key was not cleared in between, and no storage call
\* of the decryption was rejected
MediaDecryptedBack(p) ==
    /\ call[p].pc = "done"
    /\ call[p].op = "decryptMedia"
    /\ call[p].tamper = "none"
    /\ call[p].userId = call[p].envelope.userId
    /\ ~call[p].envelope.keyCleared
    /\ ~StorageFailed(p)

\* C12: decryptMedia(encryptMedia(b, u, kind), u) returns exactly b for every
\* base64 payload b, every user and every media kind, when the key of u was
\* not cleared in between: compressBase64 and decompressBase64 undo each
\* other on the paths they take.
C12_MediaRoundTrip ==
    \A p \in Procs :
        MediaDecryptedBack(p) =>
            call[p].outcome = "returned" /\ call[p].value = call[p].envelope.plain

\* C12 witness: a video payload with '+', '/' and padding came back.
C12_Witness ==
    \E p \in Procs :
        /\ MediaDecryptedBack(p)
        /\ call[p].envelope.type = "video"
        /\ call[p].envelope.plain = Media_jpeg
        /\ call[p].value = Media_jpeg

\* C13: decryptMessage of an envelope equal to encryptMessage(p, u) except
\* for a changed iv does not return p, for non-empty p.
C13_IvBound ==
    \A p \in Procs :
        (/\ call[p].pc = "done"
         /\ call[p].op = "decryptMessage"
         /\ call[p].tamper = "iv"
         /\ call[p].userId = call[p].envelope.userId
         /\ call[p].envelope.plain # << >>) =>
            call[p].value # call[p].envelope.plain

\* caller p has finished a decryptMessage that obtained the key
DecryptedWithKey(p) ==
    /\ call[p].pc = "done"
    /\ call[p].op = "decryptMessage"
    /\ ~StorageFailed(p)

\* the envelope handed to the decryptMessage of p
Handed(p) == EncryptedData(call[p].envelope, call[p].tamper)

\* C20: two decryptMessage calls under the same user (and the same stored
\* key) of envelopes with the same content return the same string, however
\* type and timestamp differ between the envelopes.
C20_KindAndTimestampAdvisory ==
    \A p, q \in Procs :
        (/\ DecryptedWithKey(p) /\ DecryptedWithKey(q)
         /\ call[p].userId = call[q].userId
         /\ call[p].key = call[q].key
         /\ Handed(p).content = Handed(q).content) =>
            /\ call[p].outcome = "returned" /\ call[q].outcome = "returned"
            /\ call[p].value = call[q].value

\* C20 witness: the envelope as it was made and the same envelope with
\* another type and another timestamp were both decrypted, to the plaintext.
C20_Witness ==
    \E p, q \in Procs :
        /\ DecryptedWithKey(p) /\ DecryptedWithKey(q)
        /\ call[p].tamper = "none" /\ call[q].tamper = "typeAndTimestamp"
        /\ call[p].envelope = call[q].envelope
        /\ Handed(p).type # Handed(q).type
        /\ Handed(p).timestamp # Handed(q).timestamp
        /\ call[p].key = call[q].key
        /\ call[q].value = call[q].envelope.plain

\* C14: also when calls interleave at their storage awaits, every key
\* returned for u since the last clearUserKeys(u) is the key stored for u: the
\* key last returned is the stored one, and no step returns for u a key other
\* than the one returned before.
C14_OneActiveKey ==
    /\ [](\A u \in Users : issued[u] # Null => store[StorageKey(u)] = issued[u])
    /\ [][\A u \in Users :
            issued[u] # Null /\ issued'[u] # Null => issued'[u] = issued[u]]_vars

\* callers p and q have both finished a call that derived and wrote a key
\* for the same user, and the setItem of q replaced the key written by p:
\* both had read a miss before either wrote
Raced(p, q) ==
    /\ p # q
    /\ call[p].pc = "done" /\ call[p].created
    /\ call[q].pc = "done" /\ call[q].created
    /\ call[p].userId = call[q].userId
    /\ call[q].overwrote = call[p].key

\* C15: when two calls for a user with no stored key both read a miss before
\* either writes, both write a key; once both have completed the stored key
\* is the one of the later setItem, and as long as no call writes or clears,
\* every key returned afterwards is that key.
C15_LastWriterWins ==
    /\ [](\A p, q \in Procs :
            Raced(p, q) =>
                /\ call[p].outcome = "returned" /\ call[q].outcome = "returned"
                /\ store[StorageKey(call[q].userId)] = call[q].key
                /\ issued[call[q].userId] = call[q].key)
    /\ [][\A u \in Users :
            (issued[u] # Null /\ issued'[u] # Null /\ store' = store) =>
                issued'[u] = store[StorageKey(u)] /\ issued'[u] = issued[u]]_vars

\* C15 witness: both callers wrote, two different keys, and the key of the
\* later setItem is the stored one.
C15_Witness ==
    \E p, q \in Procs :
        /\ Raced(p, q)
        /\ call[p].key # call[q].key
        /\ call[p].op = "generateUserKey" /\ call[q].op = "generateUserKey"
        /\ store[StorageKey(call[q].userId)] = call[q].key

\* C16: every key the program has written to storage, every key a call
\* holds (derived or read) and every key generateUserKey returns has exactly
\* 32 characters, also when the hash is 0 or -2^31.
C16_KeyLength ==
    /\ \A k \in DOMAIN store : store[k] # Null => Len(store[k]) = 32
    /\ \A p \in Procs :
          /\ call[p].key # Null => Len(call[p].key) = 32
          /\ (/\ call[p].pc = "done"
              /\ call[p].op = "generateUserKey"
              /\ call[p].outcome = "returned") => Len(call[p].value) = 32

\* C16 witness: the stored keys are '00000000' and '80000000' four times
\* over, from the hash values 0 and -2^31.
C16_Witness ==
    /\ store[StorageKey(Str_zero)] = Repeat(<<48, 48, 48, 48, 48, 48, 48, 48>>, 4)
    /\ store[StorageKey(Str_min)] = Repeat(<<56, 48, 48, 48, 48, 48, 48, 48>>, 4)
    /\ \E p \in Procs :
          /\ call[p].pc = "done"
          /\ call[p].op = "generateUserKey"
          /\ call[p].created
          /\ call[p].value = store[StorageKey(call[p].userId)]

\* the operations that obtain the key of a user
KeyOps == {"generateUserKey", "encryptMessage", "decryptMessage"}

\* C17: once an encryptMessage or a decryptMessage for a user has completed
\* (its storage calls answered), a key is stored under the storage key of
\* that user, the key the call worked with; where none was stored, never or
\* no more since a clearUserKeys, the call created it.
C17_LazyCreation ==
    \A p \in Procs :
        (/\ call[p].pc = "done"
         /\ call[p].op \in {"encryptMessage", "decryptMessage"}
         /\ ~StorageFailed(p)) =>
            /\ Truthy(store[StorageKey(call[p].userId)])
            /\ store[StorageKey(call[p].userId)] = call[p].key
            /\ call[p].created => call[p].overwrote = Null

\* C17 witness: a decryptMessage for a user whose key had just been cleared
\* created a key, which is now stored.
C17_Witness ==
    \E p \in Procs :
        /\ call[p].pc = "done"
        /\ call[p].op = "decryptMessage"
        /\ call[p].created
        /\ call[p].clearedKey # Null
        /\ store[StorageKey(call[p].userId)] = call[p].key
        /\ Len(call[p].key) = 32

\* C18: generateUserKey, alone or inside encryptMessage and decryptMessage,
\* writes only on a miss: a call whose getItem finds a key leaves the whole
\* store as it is, a setItem is only ever pending where no key is stored, and
\* it writes the entry of its user and no other.
C18_WriteOnlyOnMiss ==
    /\ [](\A p \in Procs :
            call[p].pc = "setItem" => ~Truthy(store[StorageKey(call[p].userId)]))
    /\ [][\A p \in Procs :
            (call[p].op \in KeyOps /\ call'[p] # call[p] /\ call[p].pc # "done") =>
                /\ \A k \in DOMAIN store :
                      k # StorageKey(call[p].userId) => store'[k] = store[k]
                /\ call[p].pc = "getItem" => store' = store
                /\ call'[p].rejected # "none" => store' = store]_vars

\* C18 witness: a call for one user found its key while another user's key
\* was stored too, and a call before it had written on a miss.
C18_Witness ==
    \E p \in Procs :
        /\ call[p].pc = "done"
        /\ call[p].op \in KeyOps
        /\ ~call[p].created
        /\ ~StorageFailed(p)
        /\ \A k \in DOMAIN store : Truthy(store[k])

\* C19: a clearUserKeys(u) that completes leaves no key stored for u, and
\* its removeItem changes the entry of no other user.
C19_ClearOnlyOwnKey ==
    /\ [](\A p \in Procs :
            (/\ call[p].pc = "done"
             /\ call[p].op = "clearUserKeys"
             /\ ~StorageFailed(p)) => store[StorageKey(call[p].userId)] = Null)
    /\ [][\A p \in Procs :
            (call[p].op = "clearUserKeys" /\ call'[p] # call[p] /\ call[p].pc # "done") =>
                \A k \in DOMAIN store :
                    k # StorageKey(call[p].userId) => store'[k] = store[k]]_vars

\* C19 witness: the key of one user was removed while the other user's key
\* stayed.
C19_Witness ==
    \E p \in Procs, k \in DOMAIN store :
        /\ call[p].pc = "done"
        /\ call[p].op = "clearUserKeys"
        /\ ~StorageFailed(p)
        /\ cleared[call[p].userId] # Null
        /\ store[StorageKey(call[p].userId)] = Null
        /\ k # StorageKey(call[p].userId)
        /\ Truthy(store[k])

\* caller p has an envelope back from encryptMessage or encryptMedia
Packaged(p) ==
    /\ call[p].pc = "done"
    /\ call[p].op \in {"encryptMessage", "encryptMedia"}
    /\ call[p].outcome = "returned"

\* C21: every envelope returned by encryptMessage has the type the caller
\* asked for, 'text' when the caller named none, and every envelope returned
\* by encryptMedia has the media type it was called with.
C21_EnvelopeType ==
    \A p \in Procs :
        Packaged(p) =>
            /\ call[p].envelope # NoEnvelope
            /\ call[p].envelope.type \in PayloadKinds
            /\ call[p].envelope.type =
                   (IF call[p].kindGiven = "omitted" THEN "text" ELSE call[p].kindGiven)
            /\ call[p].op = "encryptMedia" => call[p].kindGiven \in MediaKinds

\* C21 witness: an encryptMedia returned a 'video' envelope, the envelope
\* kept from before being one of an encryptMessage called without a type.
C21_Witness ==
    \E p \in Procs :
        /\ Packaged(p)
        /\ call[p].op = "encryptMedia"
        /\ call[p].envelope.type = "video"
        /\ ~call[p].keptIt
        /\ kept # NoEnvelope
        /\ kept.type = "text"
        /\ kept.plain = Str_text

(***************************************************************************)
(* AnvicMediaService.  A call advances one await at a time; what the       *)
(* device answers (permissions, camera, recorder, file system) is chosen   *)
(* freely among the answers it can give.                                   *)
(***************************************************************************)
cryptoVars == <<store, now, drawn, call, kept, issued, cleared>>

\* the truthiness of a string that may be undefined or null
IsTruthy(v) == v \notin {Null, Undefined, << >>}

\* the file system with content written at path, with path deleted
Written(fs, path, content) ==
    {f \in fs : f.path # path} \cup {[path |-> path, content |-> content]}
Deleted(fs, path) == {f \in fs : f.path # path}
Exists(path) == \E f \in files : f.path = path
Content(path) == (CHOOSE f \in files : f.path = path).content

\* the media the camera, the gallery and the recorder produce
DeviceMedia == Media_jpeg

CaptureOps == {"capturePhoto", "pickImage", "captureVideo"}
MediaTypeOf(op) ==
    CASE op \in {"capturePhoto", "pickImage"} -> "image"
      [] op = "captureVideo" -> "video"
      [] OTHER -> "audio"
EncryptedName(op) ==
    CASE op = "capturePhoto" -> "encrypted_photo"
      [] op = "pickImage" -> "encrypted_image"
      [] op = "captureVideo" -> "encrypted_video"
      [] OTHER -> "encrypted_audio"
\* asset.uri of the picker, getURI() of the recorder
AssetUri(op) == Path("asset", 0, IF op = "captureVideo" THEN "mp4" ELSE "jpg")
RecordingUri == Path("recording", 0, "m4a")

ServiceFree(p) == svc[p].pc \in {"idle", "done"}

\* histories are followed while the device holds fewer files than this
MaxFiles == 2
RoomForMedia == Cardinality(files) < MaxFiles

\* this.recording = null; the recorder a dropped Recording holds stays held
RecordingReset == [NoRecording EXCEPT !.orphan = recording.orphan]

\* isRecording()
isRecording == recording.state # "none"

\* the call of p returns a MediaFile made of its locals; stopAudioRecording
\* resets this.recording before
Returned(s) ==
    [s EXCEPT !.pc = "done",
              !.returned = MediaFile(s.finalUri, MediaTypeOf(s.op), s.encrypt)]
ReturnsMediaFile(p, s) ==
    /\ svc' = [svc EXCEPT ![p] = Returned(s)]
    /\ recording' = IF s.op = "stopAudioRecording" THEN RecordingReset ELSE recording

\* the catch block of the call of p: null is returned; stopAudioRecording
\* resets this.recording before
Caught(p) ==
    /\ svc' = [svc EXCEPT ![p] = [@ EXCEPT !.pc = "done", !.threw = TRUE]]
    /\ recording' = IF svc[p].op = "stopAudioRecording" THEN RecordingReset ELSE recording

\* capturePhoto, pickImage, captureVideo: the permission is there or is
\* asked for; denied, null is returned
BeginCapture(p, op, encrypt, userId) ==
    /\ ServiceFree(p)
    /\ RoomForMedia
    /\ \E granted \in BOOLEAN :
          svc' = [svc EXCEPT ![p] =
                    [IdleService EXCEPT !.op = op, !.encrypt = encrypt, !.userId = userId,
                                        !.pc = IF granted THEN "launch" ELSE "done"]]
    /\ UNCHANGED <<recording, files>>
    /\ UNCHANGED cryptoVars

\* the picker is cancelled or hands over no asset: null is returned
LaunchCancelled(p) ==
    /\ svc[p].pc = "launch"
    /\ svc' = [svc EXCEPT ![p] = [@ EXCEPT !.pc = "done"]]
    /\ UNCHANGED <<recording, files>>
    /\ UNCHANGED cryptoVars

\* the picker hands over an asset, with its base64 only where base64:
\* encrypt asked for it, and not always then
LaunchResolves(p, withBase64) ==
    LET s == svc[p]
        base64 == IF withBase64 THEN DeviceMedia ELSE Undefined
        t == [s EXCEPT !.uri = AssetUri(s.op), !.finalUri = AssetUri(s.op),
                       !.base64 = base64, !.original = AssetUri(s.op),
                       !.media = DeviceMedia]
    IN
    /\ s.pc = "launch"
    /\ withBase64 => (s.encrypt /\ s.op # "captureVideo")
    /\ files' = Written(files, AssetUri(s.op), MediaContent(DeviceMedia))
    /\ IF s.op = "captureVideo"
       THEN IF s.encrypt /\ IsTruthy(s.userId)
            THEN svc' = [svc EXCEPT ![p] = [t EXCEPT !.pc = "readFile"]]
            ELSE svc' = [svc EXCEPT ![p] = Returned(t)]
       ELSE IF s.encrypt /\ IsTruthy(s.userId) /\ IsTruthy(base64)
            THEN svc' = [svc EXCEPT ![p] = [t EXCEPT !.pc = "encryptMedia"]]
            ELSE svc' = [svc EXCEPT ![p] = Returned(t)]
    /\ UNCHANGED recording
    /\ UNCHANGED cryptoVars

\* a call of the picker or of the file system rejects
DeviceRejects(p) ==
    /\ svc[p].pc \in {"launch", "getInfo", "readFile", "writeFile", "deleteFile",
                      "readEnvelope", "writeTemp"}
    /\ Caught(p)
    /\ UNCHANGED files
    /\ UNCHANGED cryptoVars

\* readAsStringAsync(uri, Base64) resolves
ReadFileResolves(p) ==
    LET s == svc[p] IN
    /\ s.pc = "readFile"
    /\ Exists(s.uri)
    /\ Content(s.uri).holds = "media"
    /\ svc' = [svc EXCEPT ![p] =
                 [s EXCEPT !.pc = "encryptMedia", !.base64 = Content(s.uri).media]]
    /\ UNCHANGED <<recording, files>>
    /\ UNCHANGED cryptoVars

\* AnvicCrypto.encryptMedia(base64, userId, type) is called
CallEncryptMedia(p) ==
    LET s == svc[p] IN
    /\ s.pc = "encryptMedia"
    /\ call[p].op # "encryptMedia"
    /\ BeginEncryptMedia(p, s.base64, s.userId, MediaTypeOf(s.op))

\* ... and returns the envelope, or throws
EncryptMediaReturns(p) ==
    LET s == svc[p]
        c == call[p]
    IN
    /\ s.pc = "encryptMedia"
    /\ c.op = "encryptMedia"
    /\ c.pc = "done"
    /\ call' = [call EXCEPT ![p] = IdleCall]
    /\ IF c.outcome = "threw"
       THEN Caught(p)
       ELSE /\ svc' = [svc EXCEPT ![p] =
                         [s EXCEPT !.pc = "writeFile", !.encrypted = c.envelope,
                                   !.encryptedPath =
                                       Path(EncryptedName(s.op), now, "enc")]]
            /\ UNCHANGED recording
    /\ UNCHANGED files
    /\ UNCHANGED <<store, now, drawn, kept, issued, cleared>>

\* writeAsStringAsync(encryptedPath, JSON.stringify(encrypted)) resolves
WriteFileResolves(p) ==
    LET s == svc[p]
        t == [s EXCEPT !.finalUri = s.encryptedPath]
    IN
    /\ s.pc = "writeFile"
    /\ files' = Written(files, s.encryptedPath, EnvelopeContent(s.encrypted))
    /\ IF s.op = "stopAudioRecording"
       THEN /\ svc' = [svc EXCEPT ![p] = [t EXCEPT !.pc = "deleteFile"]]
            /\ UNCHANGED recording
       ELSE ReturnsMediaFile(p, t)
    /\ UNCHANGED cryptoVars

\* deleteAsync(uri) resolves
DeleteFileResolves(p) ==
    LET s == svc[p] IN
    /\ s.pc = "deleteFile"
    /\ Exists(s.uri)
    /\ files' = Deleted(files, s.uri)
    /\ ReturnsMediaFile(p, s)
    /\ UNCHANGED cryptoVars

\* startAudioRecording(): the permission is there or is asked for; denied,
\* false is returned
BeginStartAudioRecording(p) ==
    /\ ServiceFree(p)
    /\ RoomForMedia
    /\ \E granted \in BOOLEAN :
          svc' = [svc EXCEPT ![p] =
                    [IdleService EXCEPT !.op = "startAudioRecording",
                                        !.pc = IF granted THEN "setAudioMode" ELSE "done"]]
    /\ UNCHANGED <<recording, files>>
    /\ UNCHANGED cryptoVars

\* setAudioModeAsync resolves; this.recording = new Audio.Recording()
AudioModeSet(p) ==
    /\ svc[p].pc = "setAudioMode"
    /\ recording' = [state |-> "created", uri |-> NoPath,
                     orphan |-> recording.orphan
                                   \/ recording.state \in {"prepared", "recording"}]
    /\ svc' = [svc EXCEPT ![p] = [@ EXCEPT !.pc = "prepare"]]
    /\ UNCHANGED files
    /\ UNCHANGED cryptoVars

\* setAudioModeAsync, prepareToRecordAsync or startAsync rejects: false is
\* returned and this.recording is left as it is
StartRejects(p) ==
    /\ svc[p].pc \in {"setAudioMode", "prepare", "startAsync"}
    /\ svc' = [svc EXCEPT ![p] = [@ EXCEPT !.pc = "done", !.threw = TRUE]]
    /\ UNCHANGED <<recording, files>>
    /\ UNCHANGED cryptoVars

\* prepareToRecordAsync resolves, which it does only while no other
\* Recording holds the recorder; the platform names the file, or does not
PrepareResolves(p, hasUri) ==
    /\ svc[p].pc = "prepare"
    /\ ~recording.orphan
    /\ recording' = [recording EXCEPT !.state = "prepared",
                                      !.uri = IF hasUri THEN RecordingUri ELSE NoPath]
    /\ svc' = [svc EXCEPT ![p] = [@ EXCEPT !.pc = "startAsync"]]
    /\ UNCHANGED files
    /\ UNCHANGED cryptoVars

\* startAsync resolves: the recorder writes to its file; true is returned
StartAsyncResolves(p) ==
    /\ svc[p].pc = "startAsync"
    /\ recording' = [recording EXCEPT !.state = "recording"]
    /\ files' = IF recording.uri = NoPath THEN files
                ELSE Written(files, recording.uri, MediaContent(DeviceMedia))
    /\ svc' = [svc EXCEPT ![p] = [@ EXCEPT !.pc = "done", !.started = TRUE]]
    /\ UNCHANGED cryptoVars

\* stopAudioRecording(encrypt, userId): null when nothing is recording
BeginStopAudioRecording(p, encrypt, userId) ==
    /\ ServiceFree(p)
    /\ svc' = [svc EXCEPT ![p] =
                 [IdleService EXCEPT
                     !.op = "stopAudioRecording", !.encrypt = encrypt, !.userId = userId,
                     !.pc = IF isRecording THEN "stopAndUnload" ELSE "done",
                     !.original = IF recording.state = "recording"
                                  THEN recording.uri ELSE NoPath,
                     !.media = DeviceMedia]]
    /\ UNCHANGED <<recording, files>>
    /\ UNCHANGED cryptoVars

\* stopAndUnloadAsync resolves, which it does for a prepared Recording only;
\* without a uri, null is returned
StopAndUnloadResolves(p) ==
    LET s == svc[p] IN
    /\ s.pc = "stopAndUnload"
    /\ recording.state \in {"prepared", "recording"}
    /\ recording' = [recording EXCEPT !.state = "stopped"]
    /\ svc' = [svc EXCEPT ![p] =
                 IF recording.uri = NoPath THEN [s EXCEPT !.pc = "done"]
                 ELSE [s EXCEPT !.pc = "getInfo", !.uri = recording.uri,
                                !.finalUri = recording.uri]]
    /\ UNCHANGED files
    /\ UNCHANGED cryptoVars

\* stopAndUnloadAsync rejects: the catch block
StopAndUnloadRejects(p) ==
    /\ svc[p].pc = "stopAndUnload"
    /\ Caught(p)
    /\ UNCHANGED files
    /\ UNCHANGED cryptoVars

\* getInfoAsync(uri) resolves
GetInfoResolves(p) ==
    LET s == svc[p] IN
    /\ s.pc = "getInfo"
    /\ IF s.encrypt /\ IsTruthy(s.userId)
       THEN /\ svc' = [svc EXCEPT ![p] = [s EXCEPT !.pc = "readFile"]]
            /\ UNCHANGED recording
       ELSE ReturnsMediaFile(p, s)
    /\ UNCHANGED files
    /\ UNCHANGED cryptoVars

\* cancelRecording(): nothing to do when nothing is recording
BeginCancelRecording(p) ==
    /\ ServiceFree(p)
    /\ svc' = [svc EXCEPT ![p] =
                 [IdleService EXCEPT !.op = "cancelRecording",
                                     !.pc = IF isRecording THEN "cancelStop" ELSE "done"]]
    /\ UNCHANGED <<recording, files>>
    /\ UNCHANGED cryptoVars

\* stopAndUnloadAsync resolves: this.recording = null
CancelStopResolves(p) ==
    /\ svc[p].pc = "cancelStop"
    /\ recording.state \in {"prepared", "recording"}
    /\ recording' = RecordingReset
    /\ svc' = [svc EXCEPT ![p] = [@ EXCEPT !.pc = "done"]]
    /\ UNCHANGED files
    /\ UNCHANGED cryptoVars

\* stopAndUnloadAsync rejects, having unloaded the recorder if it was
\* prepared: the error is logged
CancelStopRejects(p) ==
    /\ svc[p].pc = "cancelStop"
    /\ recording' = IF recording.state \in {"prepared", "recording"}
                    THEN [recording EXCEPT !.state = "stopped"] ELSE recording
    /\ svc' = [svc EXCEPT ![p] = [@ EXCEPT !.pc = "done", !.threw = TRUE]]
    /\ UNCHANGED files
    /\ UNCHANGED cryptoVars

\* mediaService.decryptMedia(encryptedPath, userId)
BeginServiceDecryptMedia(p, encryptedPath, userId) ==
    /\ ServiceFree(p)
    /\ svc' = [svc EXCEPT ![p] =
                 [IdleService EXCEPT !.op = "decryptMedia", !.pc = "readEnvelope",
                                     !.uri = encryptedPath, !.userId = userId]]
    /\ UNCHANGED <<recording, files>>
    /\ UNCHANGED cryptoVars

\* readAsStringAsync(encryptedPath) resolves with what the file holds, as it
\* was written or damaged since; JSON.parse throws on what is no JSON
ReadEnvelopeResolves(p, tamper) ==
    LET s == svc[p] IN
    /\ s.pc = "readEnvelope"
    /\ Exists(s.uri)
    /\ IF Content(s.uri).holds = "envelope"
       THEN /\ svc' = [svc EXCEPT ![p] =
                         [s EXCEPT !.pc = "decryptMedia", !.tamper = tamper,
                                   !.encrypted = Content(s.uri).envelope,
                                   !.media = Content(s.uri).envelope.plain]]
            /\ kept' = Content(s.uri).envelope
            /\ UNCHANGED recording
       ELSE /\ Caught(p)
            /\ UNCHANGED kept
    /\ UNCHANGED files
    /\ UNCHANGED <<store, now, drawn, call, issued, cleared>>

\* AnvicCrypto.decryptMedia(parsed, userId) is called
CallDecryptMedia(p) ==
    LET s == svc[p] IN
    /\ s.pc = "decryptMedia"
    /\ call[p].op # "decryptMedia"
    /\ BeginDecryptMedia(p, s.tamper, s.userId)

\* the extension of the temporary file, by parsed.type
TempExtension(type) ==
    IF type = "image" THEN "jpg" ELSE IF type = "audio" THEN "m4a" ELSE "mp4"

\* ... and returns a string
DecryptMediaReturns(p) ==
    LET s == svc[p]
        c == call[p]
    IN
    /\ s.pc = "decryptMedia"
    /\ c.op = "decryptMedia"
    /\ c.pc = "done"
    /\ call' = [call EXCEPT ![p] = IdleCall]
    /\ svc' = [svc EXCEPT ![p] =
                 [s EXCEPT !.pc = "writeTemp", !.base64 = c.value, !.key = c.key,
                           !.tempPath =
                               Path("temp_decrypted", now,
                                    TempExtension(EncryptedData(c.envelope, c.tamper).type))]]
    /\ UNCHANGED <<recording, files>>
    /\ UNCHANGED <<store, now, drawn, kept, issued, cleared>>

\* text is the base64 text of some bytes
IsBase64(text) == Base64Encode(Base64Decode(text)) = text

\* a decoder that skips what is outside the alphabet can decode text: the
\* characters it reads do not leave a single one over
Decodable(text) == Len(Base64Sextets(text, 1)) % 4 # 1

\* writeAsStringAsync(tempPath, decryptedBase64, Base64) resolves: the bytes
\* the text decodes to are written; of a text that is not base64, a platform
\* with a lenient decoder writes the bytes of the characters it can decode,
\* one with a strict decoder rejects
WriteTempResolves(p, lenient) ==
    LET s == svc[p] IN
    /\ s.pc = "writeTemp"
    /\ IsBase64(s.base64) \/ (lenient /\ Decodable(s.base64))
    /\ files' = Written(files, s.tempPath,
                        MediaContent(Base64Encode(Base64Decode(s.base64))))
    /\ svc' = [svc EXCEPT ![p] = [s EXCEPT !.pc = "done", !.result = s.tempPath]]
    /\ UNCHANGED recording
    /\ UNCHANGED cryptoVars

\* the user clears the stored key of userId between two calls
UserClearsKeys(p, userId) ==
    /\ ServiceFree(p)
    /\ Truthy(store[StorageKey(userId)])
    /\ BeginClearUserKeys(p, userId)

(***************************************************************************)
(* AnvicMediaService: sequential histories of caller 1 taking photos and   *)
(* videos and recording audio.                                             *)
(***************************************************************************)
\* userId given, omitted
CaptureUserIds == {Str_u1, Undefined}

\* the steps of AnvicCrypto and of AsyncStorage inside a call
CryptoStep(p) ==
    \/ GetItemHit(p)
    \/ GetItemMiss(p)
    \/ SetItemResolves(p)
    \/ StorageRejects(p)

CaptureStep(p) ==
    \/ \E op \in CaptureOps, encrypt \in BOOLEAN, userId \in CaptureUserIds :
          BeginCapture(p, op, encrypt, userId)
    \/ LaunchCancelled(p)
    \/ \E withBase64 \in BOOLEAN : LaunchResolves(p, withBase64)

EncryptFileStep(p) ==
    \/ DeviceRejects(p)
    \/ ReadFileResolves(p)
    \/ CallEncryptMedia(p)
    \/ EncryptMediaReturns(p)
    \/ WriteFileResolves(p)
    \/ DeleteFileResolves(p)

RecorderStep(p) ==
    \/ BeginStartAudioRecording(p)
    \/ AudioModeSet(p)
    \/ StartRejects(p)
    \/ \E hasUri \in BOOLEAN : PrepareResolves(p, hasUri)
    \/ StartAsyncResolves(p)
    \/ \E encrypt \in BOOLEAN, userId \in CaptureUserIds :
          BeginStopAudioRecording(p, encrypt, userId)
    \/ StopAndUnloadResolves(p)
    \/ StopAndUnloadRejects(p)
    \/ GetInfoResolves(p)
    \/ BeginCancelRecording(p)
    \/ CancelStopResolves(p)
    \/ CancelStopRejects(p)

CaptureNext ==
    \/ \E p \in SeqProcs : CaptureStep(p)
    \/ \E p \in SeqProcs : RecorderStep(p)
    \/ \E p \in SeqProcs : EncryptFileStep(p)
    \/ \E p \in SeqProcs : CryptoStep(p)

CaptureSpec == Init /\ [][CaptureNext]_vars

(***************************************************************************)
(* mediaService.decryptMedia: sequential histories of caller 1 in which    *)
(* photos are taken encrypted for user 'u1', decrypted for either user,    *)
(* and keys are cleared.                                                   *)
(***************************************************************************)
DecryptStep(p) ==
    \/ BeginCapture(p, "capturePhoto", TRUE, Str_u1)
    \/ LaunchResolves(p, TRUE)
    \/ CallEncryptMedia(p)
    \/ EncryptMediaReturns(p)
    \/ WriteFileResolves(p)
    \/ DeviceRejects(p)
    \/ \E f \in files, userId \in Users :
          BeginServiceDecryptMedia(p, f.path, userId)
    \/ \E userId \in Users : BeginServiceDecryptMedia(p, NoPath, userId)
    \/ \E tamper \in {"none", "corrupt"} : ReadEnvelopeResolves(p, tamper)
    \/ CallDecryptMedia(p)
    \/ DecryptMediaReturns(p)
    \/ \E lenient \in BOOLEAN : WriteTempResolves(p, lenient)
    \/ \E userId \in Users : UserClearsKeys(p, userId)
    \/ RemoveItemResolves(p)

DecryptNext ==
    \/ \E p \in SeqProcs : DecryptStep(p)
    \/ \E p \in SeqProcs : CryptoStep(p)

DecryptSpec == Init /\ [][DecryptNext]_vars

(***************************************************************************)
(* Properties of AnvicMediaService.                                        *)
(***************************************************************************)
\* the calls that return a MediaFile
MediaFileOps == CaptureOps \cup {"stopAudioRecording"}

\* the call of p has returned a MediaFile
ReturnedMediaFile(p) ==
    /\ svc[p].pc = "done"
    /\ svc[p].op \in MediaFileOps
    /\ svc[p].returned # NoMediaFile

\* path names a file that holds the envelope of media
HoldsEnvelopeOf(path, media) ==
    /\ Exists(path)
    /\ Content(path).holds = "envelope"
    /\ Content(path).envelope.plain = media
    /\ Content(path).envelope.content # compressBase64(media)

\* C22: whenever capturePhoto, pickImage, captureVideo or stopAudioRecording
\* returns a MediaFile with encrypted = true, its uri names a file that holds
\* the serialized envelope of that media, never the unencrypted original
C22_NoPlaintextBehindFlag ==
    \A p \in SeqProcs :
        (ReturnedMediaFile(p) /\ svc[p].returned.encrypted)
            => /\ HoldsEnvelopeOf(svc[p].returned.uri, svc[p].media)
               /\ svc[p].returned.uri # svc[p].original

\* mediaService.decryptMedia of p has returned a path
ReturnedTempPath(p) ==
    /\ svc[p].pc = "done"
    /\ svc[p].op = "decryptMedia"
    /\ svc[p].result # NoPath

\* C23: mediaService.decryptMedia returns a path only when the media was
\* recovered: the temporary file holds the media the envelope was made of;
\* it returns null when the envelope cannot be decrypted with the current
\* key of userId (another user, key cleared since, content damaged)
C23_NullUnlessRecovered ==
    \A p \in SeqProcs :
        ReturnedTempPath(p)
            => /\ svc[p].base64 = svc[p].media
               /\ Exists(svc[p].result)
               /\ Content(svc[p].result) = MediaContent(svc[p].media)

\* stopAudioRecording(true, userId) of p has completed for a recording that
\* was started and has a uri
StoppedEncrypting(p) ==
    /\ svc[p].pc = "done"
    /\ svc[p].op = "stopAudioRecording"
    /\ svc[p].encrypt
    /\ IsTruthy(svc[p].userId)
    /\ svc[p].original # NoPath

\* C24: once stopAudioRecording(encrypt = true, userId) has completed for a
\* recording that was started and has a uri, the unencrypted recording file
\* exists no more, whether a MediaFile or null was returned
C24_NoPlaintextLeft ==
    \A p \in SeqProcs : StoppedEncrypting(p) => ~Exists(svc[p].original)

\* stopAudioRecording or cancelRecording of p has completed
EndedRecording(p) ==
    /\ svc[p].pc = "done"
    /\ svc[p].op \in {"stopAudioRecording", "cancelRecording"}

\* C25: after any calls of startAudioRecording, stopAudioRecording and
\* cancelRecording, once a stopAudioRecording or a cancelRecording has
\* completed, on whatever path, isRecording() returns false
C25_RecordingReset ==
    \A p \in SeqProcs : EndedRecording(p) => ~isRecording

(***************************************************************************)
(* ScheduledMessagesService.  The list of scheduled messages is one        *)
(* AsyncStorage item; every method reads the whole list, changes its copy  *)
(* and writes the whole list back, with awaits in between.  Caller 1 is    *)
(* the user, caller 2 the interval timer of startScheduleChecker.          *)
(***************************************************************************)
\* 'anvic_scheduled_messages'
SCHEDULED_KEY == <<97, 110, 118, 105, 99, 95, 115, 99, 104, 101, 100, 117, 108, 101, 100, 95, 109, 101, 115, 115, 97, 103, 101, 115>>

\* id: `scheduled_${Date.now()}_${Math.random()}`
ScheduledId(t, rand) == <<t, rand>>
NoScheduledId == <<0 - 1, << >>>>

\* a ScheduledMessage: its id, its scheduledTime, its status, its sentAt
\* (-1: none)
ScheduledMessage(id, scheduledTime) ==
    [id |-> id, scheduledTime |-> scheduledTime, status |-> "pending", sentAt |-> 0 - 1]
NoScheduledMessage == ScheduledMessage(NoScheduledId, 0)

\* JSON.stringify(messages): the text of the list, in brackets
JsonStringify(messages) == <<"[">> \o messages \o <<"]">>
\* JSON.parse(data)
JsonParse(data) == SubSeq(data, 2, Len(data) - 1)

\* getScheduledMessages once getItem has resolved with data
ParsedMessages(data) == IF Truthy(data) THEN JsonParse(data) ELSE << >>

\* messages.map(msg => msg.id === id ? { ...msg, status } : msg)
WithStatus(messages, id, status) ==
    [i \in 1..Len(messages) |->
        IF messages[i].id = id THEN [messages[i] EXCEPT !.status = status]
        ELSE messages[i]]

\* ... with status 'sent' and sentAt
WithSent(messages, id, t) ==
    [i \in 1..Len(messages) |->
        IF messages[i].id = id THEN [messages[i] EXCEPT !.status = "sent", !.sentAt = t]
        ELSE messages[i]]

\* the first position from index on of a message of the list that is pending
\* and due at t; 0 when there is none
NextDue(messages, index, t) ==
    LET due == {i \in index..Len(messages) :
                    messages[i].status = "pending" /\ messages[i].scheduledTime <= t}
    IN IF due = {} THEN 0 ELSE CHOOSE i \in due : \A j \in due : i <= j

\* a call at ScheduledMessagesService: where it stands and its locals
IdleScheduler ==
    [op |-> "none", pc |-> "idle", messages |-> << >>, updatedMessages |-> << >>,
     message |-> NoScheduledMessage, messageId |-> NoScheduledId, index |-> 0,
     dueAt |-> 0, returned |-> FALSE]

ScheduledInit ==
    /\ store = [k \in {SCHEDULED_KEY} |-> Null]
    /\ now = 0
    /\ drawn = {}
    /\ call = [p \in Procs |-> IdleCall]
    /\ kept = NoEnvelope
    /\ issued = [u \in Users |-> Null]
    /\ cleared = [u \in Users |-> Null]
    /\ recording = NoRecording
    /\ files = {}
    /\ svc = [p \in Procs |-> IdleScheduler]

SchedulerFree(p) == svc[p].pc \in {"idle", "done"}

\* the method of the call s has returned value: its locals are gone
Returns(s, value) ==
    [IdleScheduler EXCEPT !.op = s.op, !.pc = "done", !.messageId = s.messageId,
                          !.returned = value]

\* the list as it is stored
StoredMessages == ParsedMessages(store[SCHEDULED_KEY])

\* scheduleMessage(.., scheduledTime): the message is made, getItem issued
ScheduleMessage(p, scheduledTime) ==
    /\ SchedulerFree(p)
    /\ \E rand \in RandomValues \ drawn :
          /\ drawn' = drawn \cup {rand}
          /\ svc' = [svc EXCEPT ![p] =
                       [IdleScheduler EXCEPT
                           !.op = "scheduleMessage", !.pc = "getItem",
                           !.message = ScheduledMessage(ScheduledId(now, rand),
                                                        scheduledTime),
                           !.messageId = ScheduledId(now, rand)]]
    /\ UNCHANGED <<store, now, call, kept, issued, cleared, recording, files>>

\* getItem resolves for the method of p: the list is parsed and changed as
\* the method changes it, setItem is issued
ListRead(p, messages) ==
    LET s == svc[p] IN
    CASE s.pc = "getItem" /\ s.op = "scheduleMessage" ->
              [s EXCEPT !.pc = "setItem", !.updatedMessages = Append(messages, s.message)]
      [] s.pc = "getItem" /\ s.op = "cancelScheduledMessage" ->
              [s EXCEPT !.pc = "setItem",
                        !.updatedMessages = WithStatus(messages, s.messageId, "cancelled")]
      [] s.pc = "sendGetItem" ->
              [s EXCEPT !.pc = "sendSetItem",
                        !.updatedMessages = WithSent(messages, s.message.id, now)]
      [] s.pc = "failGetItem" ->
              [s EXCEPT !.pc = "failSetItem",
                        !.updatedMessages = WithStatus(messages, s.message.id, "failed")]

GetMessagesResolves(p) ==
    /\ svc[p].pc \in {"getItem", "sendGetItem", "failGetItem"}
    /\ svc[p].op # "checkAndSendDueMessages" \/ svc[p].pc # "getItem"
    /\ svc' = [svc EXCEPT ![p] = ListRead(p, StoredMessages)]
    /\ UNCHANGED <<store, now, drawn, call, kept, issued, cleared, recording, files>>

\* getItem rejects: getScheduledMessages logs and returns []
GetMessagesRejects(p) ==
    /\ svc[p].pc \in {"getItem", "sendGetItem", "failGetItem"}
    /\ svc[p].op # "checkAndSendDueMessages" \/ svc[p].pc # "getItem"
    /\ svc' = [svc EXCEPT ![p] = ListRead(p, << >>)]
    /\ UNCHANGED <<store, now, drawn, call, kept, issued, cleared, recording, files>>

\* the loop of checkAndSendDueMessages moves on from position index of its
\* list: sendScheduledMessage is entered for the next message that is pending
\* and due, or the method returns
LoopFrom(s, index) ==
    LET i == NextDue(s.messages, index, s.dueAt) IN
    IF i = 0 THEN Returns(s, FALSE)
    ELSE [s EXCEPT !.pc = "sendGetItem", !.index = i, !.message = s.messages[i]]

\* what follows setItem in the method of p
ListSaved(p) ==
    LET s == svc[p] IN
    CASE s.pc = "setItem" /\ s.op = "scheduleMessage" -> [s EXCEPT !.pc = "notify"]
      [] s.pc = "setItem" /\ s.op = "cancelScheduledMessage" ->
              [s EXCEPT !.pc = "cancelNotification"]
      [] s.pc = "sendSetItem" ->
              [s EXCEPT !.pc = "sendNotify", !.updatedMessages = << >>]
      [] s.pc = "failSetItem" ->
              LoopFrom([s EXCEPT !.updatedMessages = << >>], s.index + 1)

\* saveScheduledMessages: setItem resolves, the stored list is replaced
SaveMessagesResolves(p) ==
    /\ svc[p].pc \in {"setItem", "sendSetItem", "failSetItem"}
    /\ store' = [store EXCEPT ![SCHEDULED_KEY] = JsonStringify(svc[p].updatedMessages)]
    /\ svc' = [svc EXCEPT ![p] = ListSaved(p)]
    /\ UNCHANGED <<now, drawn, call, kept, issued, cleared, recording, files>>

\* saveScheduledMessages: setItem rejects, which is logged
SaveMessagesRejects(p) ==
    /\ svc[p].pc \in {"setItem", "sendSetItem", "failSetItem"}
    /\ svc' = [svc EXCEPT ![p] = ListSaved(p)]
    /\ UNCHANGED <<store, now, drawn, call, kept, issued, cleared, recording, files>>

\* scheduleNotification resolves or logs its error: the message is returned
ScheduleNotified(p) ==
    /\ svc[p].pc = "notify"
    /\ svc' = [svc EXCEPT ![p] = Returns(@, TRUE)]
    /\ UNCHANGED <<store, now, drawn, call, kept, issued, cleared, recording, files>>

\* cancelScheduledMessage(messageId)
CancelScheduledMessage(p, messageId) ==
    /\ SchedulerFree(p)
    /\ svc' = [svc EXCEPT ![p] =
                 [IdleScheduler EXCEPT !.op = "cancelScheduledMessage",
                                       !.pc = "getItem", !.messageId = messageId]]
    /\ UNCHANGED <<store, now, drawn, call, kept, issued, cleared, recording, files>>

\* cancelScheduledNotificationAsync resolves: true is returned
CancelNotificationResolves(p) ==
    /\ svc[p].pc = "cancelNotification"
    /\ svc' = [svc EXCEPT ![p] = Returns(@, TRUE)]
    /\ UNCHANGED <<store, now, drawn, call, kept, issued, cleared, recording, files>>

\* cancelScheduledNotificationAsync rejects: false is returned
CancelNotificationRejects(p) ==
    /\ svc[p].pc = "cancelNotification"
    /\ svc' = [svc EXCEPT ![p] = Returns(@, FALSE)]
    /\ UNCHANGED <<store, now, drawn, call, kept, issued, cleared, recording, files>>

\* the interval fires: checkAndSendDueMessages issues its getItem
CheckAndSendDueMessages(p) ==
    /\ SchedulerFree(p)
    /\ svc' = [svc EXCEPT ![p] =
                 [IdleScheduler EXCEPT !.op = "checkAndSendDueMessages",
                                       !.pc = "getItem"]]
    /\ UNCHANGED <<store, now, drawn, call, kept, issued, cleared, recording, files>>

\* its getItem resolves (rejected, with []): now = new Date(), and the loop
\* over the list just read starts
CheckReads(p, rejected) ==
    LET s == svc[p]
        messages == IF rejected THEN << >> ELSE StoredMessages
    IN
    /\ s.pc = "getItem"
    /\ s.op = "checkAndSendDueMessages"
    /\ svc' = [svc EXCEPT ![p] =
                 LoopFrom([s EXCEPT !.messages = messages, !.dueAt = now], 1)]
    /\ UNCHANGED <<store, now, drawn, call, kept, issued, cleared, recording, files>>

\* sendScheduledMessage: scheduleNotificationAsync resolves; the loop goes on
\* over the list checkAndSendDueMessages read
SendNotified(p) ==
    LET s == svc[p] IN
    /\ s.pc = "sendNotify"
    /\ svc' = [svc EXCEPT ![p] = LoopFrom(s, s.index + 1)]
    /\ UNCHANGED <<store, now, drawn, call, kept, issued, cleared, recording, files>>

\* sendScheduledMessage: scheduleNotificationAsync rejects; the catch block
\* issues its getItem
SendNotificationRejects(p) ==
    /\ svc[p].pc = "sendNotify"
    /\ svc' = [svc EXCEPT ![p] = [@ EXCEPT !.pc = "failGetItem"]]
    /\ UNCHANGED <<store, now, drawn, call, kept, issued, cleared, recording, files>>

(***************************************************************************)
(* ScheduledMessagesService: the user schedules and cancels while the      *)
(* timer checks.                                                           *)
(***************************************************************************)
\* the ids of the messages of the stored list
StoredIds == {StoredMessages[i].id : i \in 1..Len(StoredMessages)}

UserStep(p) ==
    \/ \E scheduledTime \in 0..MaxClock : ScheduleMessage(p, scheduledTime)
    \/ \E messageId \in StoredIds : CancelScheduledMessage(p, messageId)
    \/ ScheduleNotified(p)
    \/ CancelNotificationResolves(p)
    \/ CancelNotificationRejects(p)

TimerStep(p) ==
    \/ CheckAndSendDueMessages(p)
    \/ \E rejected \in BOOLEAN : CheckReads(p, rejected)
    \/ SendNotified(p)
    \/ SendNotificationRejects(p)

ListStep(p) ==
    \/ GetMessagesResolves(p)
    \/ GetMessagesRejects(p)
    \/ SaveMessagesResolves(p)
    \/ SaveMessagesRejects(p)

ScheduledNext ==
    \/ UserStep(1)
    \/ TimerStep(2)
    \/ \E p \in Procs : ListStep(p)
    \/ Tick

ScheduledSpec == ScheduledInit /\ [][ScheduledNext]_vars

(***************************************************************************)
(* Properties of ScheduledMessagesService.                                 *)
(***************************************************************************)
\* the status the stored list records for the message id, "none" when the
\* list does not hold it
StatusIn(messages, id) ==
    IF \E i \in 1..Len(messages) : messages[i].id = id
    THEN messages[CHOOSE i \in 1..Len(messages) : messages[i].id = id].status
    ELSE "none"

TerminalStatuses == {"sent", "failed", "cancelled"}

\* a step keeps the status of every stored message that has left 'pending'
StatusKept ==
    \A id \in StoredIds :
        StatusIn(StoredMessages, id) \in TerminalStatuses
            => StatusIn(ParsedMessages(store'[SCHEDULED_KEY]), id)
                   = StatusIn(StoredMessages, id)

\* C26: the status of a scheduled message is final once it has left
\* 'pending': a message recorded as 'sent', 'failed' or 'cancelled' never
\* changes status again
C26_TerminalStatus == [][StatusKept]_vars

\* cancelScheduledMessage(id) of the user has returned true
CancelReturnedTrue(p) ==
    /\ svc[p].pc = "done"
    /\ svc[p].op = "cancelScheduledMessage"
    /\ svc[p].returned

\* C27: a message for which cancelScheduledMessage has returned true does not
\* have status 'sent' afterwards, however the cancel and the timer's check
\* interleave
C27_CancelledNeverSent ==
    \A p \in SeqProcs :
        CancelReturnedTrue(p) => StatusIn(StoredMessages, svc[p].messageId) # "sent"

================================================================
